---- MODULE Spec2Model ----
(***************************************************************************)
(* Model of chatbot_builder.py: the rule-based responder, the generative   *)
(* responder, and the session operations of main() that drive them.        *)
(*                                                                         *)
(* A Python str is modelled as a sequence of chunks (TLA+ strings) whose   *)
(* concatenation is the text: "" is << >>, a literal is a one-chunk        *)
(* sequence, and an f-string is the sequence of its pieces.  None is the   *)
(* distinguished value None below.                                         *)
(***************************************************************************)
EXTENDS Integers, Sequences, FiniteSets, TLC

\* ------------------------------------------------------------------ bounds
MaxMessages == 4    \* turns kept in one session's history
MaxRules == 2       \* custom rules one session may add
MaxTable == 2       \* rules per table in the rule-set construction inputs

\* ------------------------------------------------------- Python primitives
None == <<"<None>">>
EmptyStr == << >>

Str(chunk) == <<chunk>>

IsStr(v) == v # None

Truthy(v) == v # None /\ v # EmptyStr

MinOf(S) == CHOOSE x \in S : \A y \in S : x <= y

\* seq[-k:]
LastK(seq, k) == SubSeq(seq, IF Len(seq) > k THEN Len(seq) - k + 1 ELSE 1, Len(seq))

\* random.choice(seq): the set of values the call may return
random_choice(seq) == { seq[i] : i \in 1..Len(seq) }

\* ------------------------------------------------------------ text inputs
\* What the user may type into the chat box ("" is an empty submission).
TextInputs == { EmptyStr, Str("Hello there"), Str("i want food") }

\* str.lower() on the chunks that occur as user input
LowerTable ==
    ("Hello there" :> "hello there") @@ ("i want food" :> "i want food")

str_lower(s) == [i \in DOMAIN s |-> LowerTable[s[i]]]

\* the word sequence of a chunk (words are maximal runs of \w characters)
WordsOf ==
    ("Hello there" :> <<"Hello", "there">>) @@
    ("hello there" :> <<"hello", "there">>) @@
    ("i want food" :> <<"i", "want", "food">>)

\* ------------------------------------------------------ regular expressions
GreetingPattern == Str("\\b(hello|hi|hey)\\b")
FarewellPattern == Str("\\b(bye|goodbye|see you)\\b")
NamePattern == Str("\\bname\\b")
ThanksPattern == Str("\\b(thanks|thank you)\\b")
HelpPattern == Str("\\b(help|what can you do)\\b")
OrderPattern == Str("\\b(order|tracking|delivery)\\b")
ReturnPattern == Str("\\b(return|refund)\\b")
HoursPattern == Str("\\b(hours|open|closed)\\b")
MathPattern == Str("\\b(math|algebra|calculus)\\b")
SciencePattern == Str("\\b(science|physics|chemistry)\\b")
HomeworkPattern == Str("\\b(homework|assignment)\\b")
MenuPattern == Str("\\b(menu|food|eat|order)\\b")
ReservationPattern == Str("\\b(reservation|table|book)\\b")
FoodPattern == Str("\\bfood\\b")
BadPattern == Str("(")

\* The alternatives of each pattern \b(a|b|...)\b, each a sequence of words.
\* A pattern outside this table does not compile (re.error).
PatternAlts ==
    (GreetingPattern :> { <<"hello">>, <<"hi">>, <<"hey">> }) @@
    (FarewellPattern :> { <<"bye">>, <<"goodbye">>, <<"see", "you">> }) @@
    (NamePattern :> { <<"name">> }) @@
    (ThanksPattern :> { <<"thanks">>, <<"thank", "you">> }) @@
    (HelpPattern :> { <<"help">>, <<"what", "can", "you", "do">> }) @@
    (OrderPattern :> { <<"order">>, <<"tracking">>, <<"delivery">> }) @@
    (ReturnPattern :> { <<"return">>, <<"refund">> }) @@
    (HoursPattern :> { <<"hours">>, <<"open">>, <<"closed">> }) @@
    (MathPattern :> { <<"math">>, <<"algebra">>, <<"calculus">> }) @@
    (SciencePattern :> { <<"science">>, <<"physics">>, <<"chemistry">> }) @@
    (HomeworkPattern :> { <<"homework">>, <<"assignment">> }) @@
    (MenuPattern :> { <<"menu">>, <<"food">>, <<"eat">>, <<"order">> }) @@
    (ReservationPattern :> { <<"reservation">>, <<"table">>, <<"book">> }) @@
    (FoodPattern :> { <<"food">> })

re_compiles(pattern) == pattern \in DOMAIN PatternAlts

Occurs(alt, words) ==
    \E k \in 1..Len(words) :
        /\ k + Len(alt) - 1 <= Len(words)
        /\ SubSeq(words, k, k + Len(alt) - 1) = alt

\* re.search(pattern, string) for a pattern that compiles: a match anywhere
re_search(pattern, string) ==
    \E i \in 1..Len(string) :
        \E alt \in PatternAlts[pattern] : Occurs(alt, WordsOf[string[i]])

\* ------------------------------------------------------------- dictionaries
\* A dict is the sequence of its items in insertion order, keys unique.
DictKeys(d) == { d[i].pattern : i \in 1..Len(d) }

DictIndex(d, k) == CHOOSE i \in 1..Len(d) : d[i].pattern = k

DictGet(d, k) == d[DictIndex(d, k)].responses

\* d[k] = v: an existing key keeps its position and takes the new value
DictSet(d, k, v) ==
    IF k \in DictKeys(d)
    THEN [d EXCEPT ![DictIndex(d, k)] = [pattern |-> k, responses |-> v]]
    ELSE Append(d, [pattern |-> k, responses |-> v])

RECURSIVE DictUpdate(_, _)
\* d.update(e): the items of e set in e's order
DictUpdate(d, e) ==
    IF e = << >> THEN d
    ELSE DictUpdate(DictSet(d, Head(e).pattern, Head(e).responses), Tail(e))

\* a merge that extends the replies of a shared pattern instead of replacing them
DictMerge_extend(a, b) ==
    [i \in 1..Len(a) |->
        IF a[i].pattern \in DictKeys(b)
        THEN [a[i] EXCEPT !.responses = @ \o DictGet(b, a[i].pattern)]
        ELSE a[i]]
    \o SelectSeq(b, LAMBDA r : r.pattern \notin DictKeys(a))

\* {**a, **b}
DictMerge(a, b) == DictUpdate(a, b)

\* ------------------------------------------------------------ rule tables
Rule(p, rs) == [pattern |-> p, responses |-> rs]

default_rules == <<
    Rule(GreetingPattern, << Str("Hello! How can I help you today?"),
                             Str("Hi there! What can I do for you?"),
                             Str("Hey! How's it going?") >>),
    Rule(FarewellPattern, << Str("Goodbye! Have a great day!"),
                             Str("See you later!"),
                             Str("Take care!") >>),
    Rule(NamePattern, << Str("I'm a rule-based chatbot created to help you learn!"),
                         Str("My name is RuleBot. Nice to meet you!") >>),
    Rule(ThanksPattern, << Str("You're welcome!"),
                           Str("Happy to help!"),
                           Str("No problem!") >>),
    Rule(HelpPattern, << Str("I can respond to basic greetings, questions about my name, and simple conversations!"),
                         Str("I'm a simple rule-based bot. Try saying hello, asking my name, or saying goodbye!") >>)
>>

CHATBOT_TEMPLATES ==
    (Str("customer_support") :>
        [name |-> Str("Customer Support Bot"),
         rules |-> <<
            Rule(OrderPattern, << Str("I can help you track your order! Please provide your order number."),
                                  Str("Let me check on your delivery status. What's your order ID?") >>),
            Rule(ReturnPattern, << Str("I understand you'd like to return an item. Our return policy allows returns within 30 days."),
                                   Str("For refunds, please contact our billing department or visit our returns page.") >>),
            Rule(HoursPattern, << Str("Our customer service is available 24/7 through this chat!"),
                                  Str("We're here to help anytime! Our phone support is available 9 AM - 6 PM EST.") >>) >>]) @@
    (Str("educational_tutor") :>
        [name |-> Str("Educational Tutor Bot"),
         rules |-> <<
            Rule(MathPattern, << Str("Math is fun! What specific topic would you like help with?"),
                                 Str("I love helping with math problems! Show me what you're working on.") >>),
            Rule(SciencePattern, << Str("Science is fascinating! What experiment or concept interests you?"),
                                    Str("Let's explore science together! What would you like to learn about?") >>),
            Rule(HomeworkPattern, << Str("I'm here to help guide you through your homework, not do it for you! What do you need help understanding?"),
                                     Str("Let's work through this step by step. What part of the assignment is challenging?") >>) >>]) @@
    (Str("restaurant_bot") :>
        [name |-> Str("Restaurant Assistant"),
         rules |-> <<
            Rule(MenuPattern, << Str("Our menu includes pizza, burgers, salads, and daily specials!"),
                                 Str("What would you like to order today? We have fresh ingredients!") >>),
            Rule(HoursPattern, << Str("We're open Monday-Sunday, 11 AM - 10 PM!"),
                                  Str("Our kitchen closes at 9:30 PM, but you can still order until then!") >>),
            Rule(ReservationPattern, << Str("I'd be happy to help with reservations! How many people and what time?"),
                                        Str("Let me check our availability. What day were you thinking?") >>) >>])

default_responses == <<
    Str("I'm not sure I understand. Can you rephrase that?"),
    Str("That's interesting! Tell me more."),
    Str("I'm still learning. Can you ask me something else?"),
    Str("Hmm, I don't have a good response for that yet.") >>

\* ------------------------------------------------------------------ state
Sessions == {1, 2}

VARIABLES
    messages,         \* st.session_state.messages, per session
    current_bot,      \* st.session_state.current_bot, per session
    custom_rules,     \* st.session_state.custom_rules, per session
    bot_personality,  \* st.session_state.bot_personality, per session
    api_key,          \* value of the "OpenAI API Key:" text input, per session
    environ,          \* os.environ["OPENAI_API_KEY"] of the process (None: unset)
    last,             \* the most recent operation and what it did
    tables,           \* the rule tables RuleBasedChatbot.__init__ reads
    bot               \* the RuleBasedChatbot most recently constructed on its own

vars == <<messages, current_bot, custom_rules, bot_personality, api_key,
          environ, last, tables, bot>>

\* --------------------------------------------------------- RuleBasedChatbot
\* tables holds default_rules and CHATBOT_TEMPLATES; it is the code's own
\* tables (CodeTables) wherever main() runs, and ranges over small tables
\* with shared patterns where the construction is examined on its own.
\* tables.code says that the tables are the code's own
BaseRules == IF tables.code THEN default_rules ELSE tables.base

Templates == IF tables.code THEN CHATBOT_TEMPLATES ELSE tables.templates

\* RuleBasedChatbot(template)
RuleBasedChatbot_init(template) ==
    IF Truthy(template) /\ template \in DOMAIN Templates
    THEN LET template_data == Templates[template]
         IN [rules |-> DictMerge(BaseRules, template_data.rules),
             name |-> template_data.name,
             default_responses |-> default_responses]
    ELSE [rules |-> BaseRules,
          name |-> Str("RuleBot"),
          default_responses |-> default_responses]

\* RuleBasedChatbot.get_response: the rules are tried in dict order; the
\* first pattern that fails to compile raises re.error out of the call, the
\* first that matches ends it with a random choice among its responses.
RuleBasedChatbot_get_response(self, message) ==
    LET message_lower == str_lower(message)
        stops == { i \in 1..Len(self.rules) :
                      \/ ~re_compiles(self.rules[i].pattern)
                      \/ re_search(self.rules[i].pattern, message_lower) }
    IN  IF stops = {}
        THEN [raised |-> FALSE, matched |-> 0,
              choices |-> random_choice(self.default_responses)]
        ELSE LET i == MinOf(stops)
             IN IF re_compiles(self.rules[i].pattern)
                THEN [raised |-> FALSE, matched |-> i,
                      choices |-> random_choice(self.rules[i].responses)]
                ELSE [raised |-> TRUE, matched |-> i, choices |-> {}]

\* ---------------------------------------------------------------- AIChatbot
ContextWindow == 10

Personalities == {"helpful", "creative", "professional", "funny", "educational"}

personality_prompts ==
    [p \in Personalities |->
        CASE p = "helpful" -> Str("You are a helpful and friendly assistant. Provide clear, useful responses.")
          [] p = "creative" -> Str("You are a creative and imaginative assistant. Use vivid language and creative examples.")
          [] p = "professional" -> Str("You are a professional business assistant. Be formal and direct in your responses.")
          [] p = "funny" -> Str("You are a witty and humorous assistant. Add appropriate humor to your responses.")
          [] p = "educational" -> Str("You are an educational tutor. Explain concepts clearly and ask follow-up questions.")]

PlaceholderKey == Str("sk-default-key")

UnconfiguredMessage ==
    Str("Please add your OpenAI API key in the sidebar to use the AI chatbot!")

\* What the one call to client.chat.completions.create may do.
NoOutcome == [kind |-> "none", content |-> None]

BackendOutcomes == {
    [kind |-> "ok", content |-> Str("Sure, here is an answer.")],
    [kind |-> "ok", content |-> None],              \* a choice without text
    [kind |-> "no_choices", content |-> None],      \* response.choices is empty
    [kind |-> "error", content |-> Str("Connection error.")] }

\* str(e) of the exception the try block raises, None if it raises none
ExceptionOf(outcome) ==
    CASE outcome.kind = "error" -> outcome.content
      [] outcome.kind = "no_choices" -> Str("list index out of range")
      [] OTHER -> None

\* a constructor that takes any non-empty key, the placeholder included
AIChatbot_init_any_key(personality, env) ==
    [personality |-> personality,
     client |-> IF Truthy(env) THEN env ELSE None]

\* AIChatbot(personality), with os.getenv("OPENAI_API_KEY") = env
AIChatbot_init(personality, env) ==
    [personality |-> personality,
     client |-> IF Truthy(env) /\ env # PlaceholderKey THEN env ELSE None]

Entry(role, content) == [role |-> role, content |-> content]

\* a responder that calls the backend a second time when the first call fails
AIChatbot_get_response_retry(self, message, context, outcome) ==
    IF self.client = None
    THEN [raised |-> FALSE, calls |-> 0, request |-> << >>,
          response |-> UnconfiguredMessage]
    ELSE LET request == << Entry("system", personality_prompts[self.personality]) >>
                        \o LastK(context, ContextWindow)
                        \o << Entry("user", message) >>
         IN  IF ExceptionOf(outcome) = None
             THEN [raised |-> FALSE, calls |-> 1, request |-> request,
                   response |-> outcome.content]
             ELSE [raised |-> FALSE, calls |-> 2, request |-> request,
                   response |-> Str("Sorry, I encountered an error: ")
                                \o ExceptionOf(outcome)
                                \o Str(". Please check your API key.")]

\* AIChatbot.get_response: calls is the number of backend calls made,
\* request the messages of the (last) call
AIChatbot_get_response(self, message, context, outcome) ==
    IF self.client = None
    THEN [raised |-> FALSE, calls |-> 0, request |-> << >>,
          response |-> UnconfiguredMessage]
    ELSE LET system_prompt ==
                 IF self.personality \in DOMAIN personality_prompts
                 THEN personality_prompts[self.personality]
                 ELSE personality_prompts["helpful"]
             messages1 == << Entry("system", system_prompt) >>
             messages2 == IF context # << >>
                          THEN messages1 \o LastK(context, ContextWindow)
                          ELSE messages1
             messages3 == Append(messages2, Entry("user", message))
         IN  IF ExceptionOf(outcome) = None
             THEN [raised |-> FALSE, calls |-> 1, request |-> messages3,
                   response |-> outcome.content]
             ELSE [raised |-> FALSE, calls |-> 1, request |-> messages3,
                   response |-> Str("Sorry, I encountered an error: ")
                                \o ExceptionOf(outcome)
                                \o Str(". Please check your API key.")]

\* --------------------------------------------------------------------- main
BotTypes == {"rule_based", "ai_powered", "custom"}

\* what the widgets of the sidebar may hold
PersonalityInputs == {"helpful", "professional"}
KeyInputs == { EmptyStr, PlaceholderKey, Str("sk-live-key") }
PatternInputs == { EmptyStr, GreetingPattern, FoodPattern, BadPattern }
ResponseInputs == { EmptyStr, Str("I love talking about food!") }

CustomBotMessage == Str("Custom bot functionality coming soon!")

NoOp == [op |-> "none", session |-> 0, mode |-> "none", text |-> EmptyStr,
         outcome |-> "none", reply |-> None, calls |-> 0, request |-> << >>,
         backend |-> NoOutcome]

Did(op, s) == [NoOp EXCEPT !.op = op, !.session = s]

\* The sidebar of one script run of session s: while the AI configuration is
\* shown and its key input holds a value, the value is written to os.environ.
SidebarEnviron(s) ==
    IF current_bot[s] = "ai_powered" /\ Truthy(api_key[s])
    THEN api_key[s]
    ELSE environ

RECURSIVE AddCustomRules(_, _)
\* for custom_rule in custom_rules: rules[pattern] = [response]
AddCustomRules(rules, rest) ==
    IF rest = << >> THEN rules
    ELSE AddCustomRules(DictSet(rules, Head(rest).pattern, << Head(rest).response >>),
                        Tail(rest))

\* the bot a rule-based turn of session s matches with
SessionRuleBot(s) ==
    LET b == RuleBasedChatbot_init(None)
    IN  [b EXCEPT !.rules = AddCustomRules(b.rules, custom_rules[s])]

IsChatRole(msg) == msg.role \in {"user", "assistant"}

\* The chat part of one script run of session s with user_input typed in:
\* the set of (messages, record of the turn) the run may end with.
TurnResults(s, user_input, outcome) ==
    LET messages1 == Append(messages[s], Entry("user", user_input))
        turn == [Did("submit_turn", s) EXCEPT !.mode = current_bot[s],
                                               !.text = user_input]
        Replied(response, calls, request, backend) ==
            [messages |-> Append(messages1, Entry("assistant", response)),
             last |-> [turn EXCEPT !.outcome = "replied", !.reply = response,
                                   !.calls = calls, !.request = request,
                                   !.backend = backend]]
    IN  IF current_bot[s] = "rule_based"
        THEN LET r == RuleBasedChatbot_get_response(SessionRuleBot(s), user_input)
             IN  IF r.raised
                 THEN { [messages |-> messages1,
                         last |-> [turn EXCEPT !.outcome = "raised"]] }
                 ELSE { Replied(response, 0, << >>, NoOutcome) : response \in r.choices }
        ELSE IF current_bot[s] = "ai_powered"
        THEN LET ai == AIChatbot_init(bot_personality[s], SidebarEnviron(s))
                 context == SelectSeq(LastK(messages1, ContextWindow), IsChatRole)
                 r == AIChatbot_get_response(ai, user_input, context, outcome)
             IN  IF r.raised
                 THEN { [messages |-> messages1,
                         last |-> [turn EXCEPT !.outcome = "raised",
                                               !.calls = r.calls,
                                               !.request = r.request,
                                               !.backend = outcome]] }
                 ELSE { Replied(r.response, r.calls, r.request,
                                IF r.calls = 0 THEN NoOutcome ELSE outcome) }
        ELSE { Replied(CustomBotMessage, 0, << >>, NoOutcome) }

\* the bot type selectbox changes: the widgets of the configuration that is no
\* longer shown are dropped, and a newly shown AI configuration starts with an
\* empty key input and the first personality, which line 259 stores
SelectBotType(s, bot_type) ==
    /\ bot_type # current_bot[s]
    /\ current_bot' = [current_bot EXCEPT ![s] = bot_type]
    /\ api_key' = [api_key EXCEPT ![s] = EmptyStr]
    /\ bot_personality' =
          IF bot_type = "ai_powered"
          THEN [bot_personality EXCEPT ![s] = "helpful"]
          ELSE bot_personality
    /\ last' = Did("select_bot", s)
    /\ UNCHANGED <<messages, custom_rules, environ, tables, bot>>

\* the API key text input changes
EnterApiKey(s, key) ==
    /\ current_bot[s] = "ai_powered"
    /\ key # api_key[s]
    /\ api_key' = [api_key EXCEPT ![s] = key]
    /\ environ' = IF Truthy(key) THEN key ELSE environ
    /\ last' = Did("api_key", s)
    /\ UNCHANGED <<messages, current_bot, custom_rules, bot_personality, tables, bot>>

\* the personality selectbox changes
SelectPersonality(s, personality) ==
    /\ current_bot[s] = "ai_powered"
    /\ personality # bot_personality[s]
    /\ bot_personality' = [bot_personality EXCEPT ![s] = personality]
    /\ environ' = SidebarEnviron(s)
    /\ last' = Did("personality", s)
    /\ UNCHANGED <<messages, current_bot, custom_rules, api_key, tables, bot>>

\* the "Add Rule" button is pressed
AddRule(s, pattern, response) ==
    /\ current_bot[s] = "rule_based"
    /\ Len(custom_rules[s]) < MaxRules
    /\ custom_rules' =
          IF Truthy(pattern) /\ Truthy(response)
          THEN [custom_rules EXCEPT
                   ![s] = Append(@, [pattern |-> pattern, response |-> response])]
          ELSE custom_rules
    /\ last' = Did("add_rule", s)
    /\ UNCHANGED <<messages, current_bot, bot_personality, api_key, environ, tables, bot>>

\* the "Clear Conversation" button is pressed
ClearConversation(s) ==
    /\ messages' = [messages EXCEPT ![s] = << >>]
    /\ environ' = SidebarEnviron(s)
    /\ last' = Did("clear", s)
    /\ UNCHANGED <<current_bot, custom_rules, bot_personality, api_key, tables, bot>>

\* a message is submitted in the chat input (cap bounds the history explored)
Turn(s, user_input, outcome, cap) ==
    /\ Truthy(user_input)
    /\ Len(messages[s]) + 2 <= cap
    /\ \E r \in TurnResults(s, user_input, outcome) :
          /\ messages' = [messages EXCEPT ![s] = r.messages]
          /\ last' = r.last
    /\ environ' = SidebarEnviron(s)
    /\ UNCHANGED <<current_bot, custom_rules, bot_personality, api_key, tables, bot>>

SubmitTurn(s, user_input, outcome) == Turn(s, user_input, outcome, MaxMessages)

\* ------------------------------------------------------------ specification
CodeTables == [code |-> TRUE, base |-> << >>, templates |-> << >>]

NoBot == [template |-> None, rules |-> << >>, name |-> None,
          default_responses |-> << >>]

EnvironInputs == { None, EmptyStr, PlaceholderKey, Str("sk-env-key") }

Init ==
    /\ messages = [s \in Sessions |-> << >>]
    /\ current_bot = [s \in Sessions |-> "rule_based"]
    /\ custom_rules = [s \in Sessions |-> << >>]
    /\ bot_personality = [s \in Sessions |-> "helpful"]
    /\ api_key = [s \in Sessions |-> EmptyStr]
    /\ environ \in EnvironInputs
    /\ last = NoOp
    /\ tables = CodeTables
    /\ bot = NoBot

\* one session on its own
Next ==
    \/ \E b \in BotTypes : SelectBotType(1, b)
    \/ \E k \in KeyInputs : EnterApiKey(1, k)
    \/ \E p \in PersonalityInputs : SelectPersonality(1, p)
    \/ \E p \in PatternInputs, r \in ResponseInputs : AddRule(1, p, r)
    \/ ClearConversation(1)
    \/ \E t \in TextInputs, o \in BackendOutcomes : SubmitTurn(1, t, o)

Spec == Init /\ [][Next]_vars

\* Two sessions of one server process, their script runs interleaved.
SessionBotTypes == {"rule_based", "ai_powered"}
SessionKeys == { Str("sk-live-key") }
SessionTexts == { Str("Hello there") }
SessionOutcomes == { [kind |-> "ok", content |-> Str("Sure, here is an answer.")] }

NextSessions ==
    \E s \in Sessions :
        \/ \E b \in SessionBotTypes : SelectBotType(s, b)
        \/ \E k \in SessionKeys : EnterApiKey(s, k)
        \/ ClearConversation(s)
        \/ \E t \in SessionTexts, o \in SessionOutcomes : SubmitTurn(s, t, o)

SpecSessions == Init /\ [][NextSessions]_vars

\* One generative session with a long history.
MaxLongMessages == 18

LongOutcomes == {
    [kind |-> "ok", content |-> Str("Sure, here is an answer.")],
    [kind |-> "error", content |-> Str("Connection error.")] }

InitLong ==
    /\ messages = [s \in Sessions |-> << >>]
    /\ current_bot = [s \in Sessions |-> IF s = 1 THEN "ai_powered" ELSE "rule_based"]
    /\ custom_rules = [s \in Sessions |-> << >>]
    /\ bot_personality = [s \in Sessions |-> "helpful"]
    /\ api_key = [s \in Sessions |-> EmptyStr]
    /\ environ = Str("sk-env-key")
    /\ last = NoOp
    /\ tables = CodeTables
    /\ bot = NoBot

LongTurn(s, user_input, outcome) == Turn(s, user_input, outcome, MaxLongMessages)

NextLong ==
    \/ \E t \in TextInputs, o \in LongOutcomes : LongTurn(1, t, o)
    \/ ClearConversation(1)

SpecLong == InitLong /\ [][NextLong]_vars

\* Construction of a RuleBasedChatbot from a base table and template tables.
BuildPatterns == { GreetingPattern, FoodPattern, HoursPattern }
BuildResponses == { << Str("A"), Str("B") >>, << Str("C") >> }
BuildRules == { Rule(p, rs) : p \in BuildPatterns, rs \in BuildResponses }

UniqueKeys(d) == \A i, j \in 1..Len(d) : d[i].pattern = d[j].pattern => i = j

RuleTables ==
    UNION { { d \in [1..n -> BuildRules] : UniqueKeys(d) } : n \in 0..MaxTable }

TemplateInputs ==
    { None, EmptyStr, Str("customer_support"), Str("no_such_template") }

BuildTables ==
    { CodeTables } \cup
    { [code |-> FALSE, base |-> b,
       templates |-> (Str("customer_support") :>
                        [name |-> Str("Customer Support Bot"), rules |-> o])] :
      b \in RuleTables, o \in RuleTables }

InitBuild ==
    /\ messages = [s \in Sessions |-> << >>]
    /\ current_bot = [s \in Sessions |-> "rule_based"]
    /\ custom_rules = [s \in Sessions |-> << >>]
    /\ bot_personality = [s \in Sessions |-> "helpful"]
    /\ api_key = [s \in Sessions |-> EmptyStr]
    /\ environ = None
    /\ last = NoOp
    /\ tables \in BuildTables
    /\ bot = NoBot

\* bot = RuleBasedChatbot(template)
Construct(template) ==
    /\ bot' = LET b == RuleBasedChatbot_init(template)
              IN  [template |-> template, rules |-> b.rules, name |-> b.name,
                   default_responses |-> b.default_responses]
    /\ UNCHANGED <<messages, current_bot, custom_rules, bot_personality,
                   api_key, environ, last, tables>>

NextBuild == \E template \in TemplateInputs : Construct(template)

SpecBuild == InitBuild /\ [][NextBuild]_vars

\* ------------------------------------------------------------------ claims
SubmittedIn(mode) == last.op = "submit_turn" /\ last.mode = mode

History == messages[last.session]

\* the turns the session held before the turn that was just answered
PriorTurns == SubSeq(History, 1, Len(History) - 2)

Unconfigured(env) == env \in { None, EmptyStr, PlaceholderKey }

Embeds(text, part) ==
    \E i \in 1..Len(text) :
        /\ i + Len(part) - 1 <= Len(text)
        /\ SubSeq(text, i, i + Len(part) - 1) = part

\* C1: every submitted turn, in every mode, ends with a reply that is a text
\* string and that is the assistant turn appended after the user turn.
C1_EveryTurnReplied ==
    last.op = "submit_turn" =>
        /\ last.outcome = "replied"
        /\ IsStr(last.reply)
        /\ Len(History) >= 2
        /\ History[Len(History) - 1] = Entry("user", last.text)
        /\ History[Len(History)] = Entry("assistant", last.reply)

\* C2: a malformed pattern is rejected when it is added, so no stored rule
\* has a pattern that fails to compile and no rule-based turn fails in matching.
C2_MalformedRejectedAtAdd ==
    /\ \A s \in Sessions : \A i \in 1..Len(custom_rules[s]) :
          re_compiles(custom_rules[s][i].pattern)
    /\ SubmittedIn("rule_based") => last.outcome # "raised"

\* C3: the sequence handed to the backend is one system entry with the
\* persona instruction, the last min(10, n) of the n prior turns in order,
\* and the new input as one final user entry.
C3_BoundedContext ==
    (SubmittedIn("ai_powered") /\ last.calls > 0) =>
        last.request =
            << Entry("system", personality_prompts[bot_personality[last.session]]) >>
            \o LastK(PriorTurns, ContextWindow)
            \o << Entry("user", last.text) >>

\* What the code hands over: the new input is already the last turn of the
\* history when the window is cut, and is then appended once more.
ContextAsBuilt ==
    (SubmittedIn("ai_powered") /\ last.calls > 0) =>
        last.request =
            << Entry("system", personality_prompts[bot_personality[last.session]]) >>
            \o LastK(Append(PriorTurns, Entry("user", last.text)), ContextWindow)
            \o << Entry("user", last.text) >>

\* the rules in the order the rule set is specified to be evaluated in:
\* the base rules as declared, then the user rules as added, one entry each
EvaluationOrder(s) ==
    default_rules \o
    [i \in 1..Len(custom_rules[s]) |->
        Rule(custom_rules[s][i].pattern, << custom_rules[s][i].response >>)]

RuleMatches(rule, text) ==
    re_compiles(rule.pattern) /\ re_search(rule.pattern, str_lower(text))

\* C4: the reply of a rule-based turn is one of the replies of the first rule,
\* in evaluation order, whose pattern matches the lower-cased text, and one of
\* the fallback replies when no rule matches.
C4_FirstMatchWins ==
    SubmittedIn("rule_based") =>
        LET order == EvaluationOrder(last.session)
            hits == { i \in 1..Len(order) : RuleMatches(order[i], last.text) }
        IN  /\ last.outcome = "replied"
            /\ IF hits = {}
               THEN last.reply \in random_choice(default_responses)
               ELSE last.reply \in random_choice(order[MinOf(hits)].responses)

\* C5: adding a user rule leaves every text that an existing rule already
\* answered with the replies of that same rule, whatever the new pattern is.
C5_AddKeepsPrecedence ==
    [][ \A s \in Sessions : \A t \in TextInputs \ {EmptyStr} :
          LET before == RuleBasedChatbot_get_response(SessionRuleBot(s), t)
              after == RuleBasedChatbot_get_response(SessionRuleBot(s), t)'
              added == custom_rules'[s][Len(custom_rules'[s])]
          IN  ( /\ last'.op = "add_rule"
                /\ Len(custom_rules'[s]) = Len(custom_rules[s]) + 1
                /\ RuleMatches(Rule(added.pattern, << added.response >>), t)
                /\ ~before.raised
                /\ before.matched > 0 )
              => after = before ]_vars

\* C6: with a credential configured a generative turn makes exactly one
\* backend call; when the call fails the turn still ends with one text reply,
\* which embeds the description of the failure.
C6_SingleCallDegradedReply ==
    (SubmittedIn("ai_powered") /\ ~Unconfigured(environ)) =>
        /\ last.calls = 1
        /\ last.outcome = "replied"
        /\ History[Len(History)] = Entry("assistant", last.reply)
        /\ ExceptionOf(last.backend) # None =>
              /\ IsStr(last.reply)
              /\ Embeds(last.reply, ExceptionOf(last.backend))

C6_Witness ==
    /\ SubmittedIn("ai_powered")
    /\ ~Unconfigured(environ)
    /\ last.backend.kind = "error"
    /\ last.outcome = "replied"

\* C7: without a configured credential a generative turn answers with the
\* fixed unconfigured message and calls no backend; a backend call is made
\* only with a real credential configured.
C7_UnconfiguredNoCall ==
    /\ (SubmittedIn("ai_powered") /\ Unconfigured(environ)) =>
          /\ last.calls = 0
          /\ last.reply = UnconfiguredMessage
    /\ last.calls > 0 => ~Unconfigured(environ)

C7_Witness ==
    /\ SubmittedIn("ai_powered")
    /\ environ = PlaceholderKey
    /\ last.reply = UnconfiguredMessage

\* C8: an operation of one session changes nothing of what a turn of another
\* session would be answered with.
C8_SessionsIndependent ==
    [][ \A t \in Sessions :
          last'.session # t =>
              \A text \in SessionTexts, o \in SessionOutcomes :
                  TurnResults(t, text, o)' = TurnResults(t, text, o) ]_vars

\* C9: a template overlay replaces and never merges: a pattern of both tables
\* has exactly the overlay's replies, at its base position; the base rules
\* outside the overlay are kept in place; the overlay's new patterns follow
\* the base rules in overlay order; no or an unknown template gives the base.
C9_OverlayReplaces ==
    bot # NoBot =>
        LET base == BaseRules
            known == Truthy(bot.template) /\ bot.template \in DOMAIN Templates
            overlay == IF known THEN Templates[bot.template].rules ELSE << >>
            added == SelectSeq(overlay, LAMBDA r : r.pattern \notin DictKeys(base))
        IN  /\ ~known => bot.rules = base
            /\ Len(bot.rules) = Len(base) + Len(added)
            /\ \A i \in 1..Len(base) :
                  /\ bot.rules[i].pattern = base[i].pattern
                  /\ bot.rules[i].responses =
                        IF base[i].pattern \in DictKeys(overlay)
                        THEN DictGet(overlay, base[i].pattern)
                        ELSE base[i].responses
            /\ \A j \in 1..Len(added) : bot.rules[Len(base) + j] = added[j]

C9_Witness ==
    /\ bot # NoBot
    /\ bot.template = Str("customer_support")
    /\ \E i \in 1..Len(BaseRules) :
          /\ BaseRules[i].pattern \in DictKeys(Templates[bot.template].rules)
          /\ BaseRules[i].responses = << Str("A"), Str("B") >>
          /\ bot.rules[i].responses = << Str("C") >>
    /\ Len(bot.rules) > Len(BaseRules)

\* C10: every history is empty or alternates user, assistant, ... from a user
\* turn and has even length.
C10_Alternating ==
    \A s \in Sessions :
        /\ Len(messages[s]) % 2 = 0
        /\ \A i \in 1..Len(messages[s]) :
              messages[s][i].role = IF i % 2 = 1 THEN "user" ELSE "assistant"

====
